---------------------------- MODULE Spec2Model ----------------------------
(***************************************************************************)
(* Model of chessbot.py: the submission-processing loop of ChessFenBot.    *)
(*                                                                         *)
(* The script is one sequential process.  Its position (pc) is recorded at *)
(* the calls that wait on the outside world: the submission stream, the    *)
(* predictor, add_comment and the sleeps.  Straight-line code between two  *)
(* such calls is one step.  Exceptions of the feed client, of the          *)
(* predictor and of the two log writers, and KeyboardInterrupt, arrive     *)
(* while the process waits in one of those calls.  Writes of the           *)
(* processed-ids file are taken to succeed; count and count_actual are     *)
(* only printed and are left out.                                          *)
(*                                                                         *)
(* Strings are sequences of one-character strings.                         *)
(***************************************************************************)
EXTENDS Integers, Sequences, FiniteSets, TLC

(***************************************************************************)
(* Bounds                                                                  *)
(***************************************************************************)
MaxLog == 2

MaxReplies == 2

MaxRateLimits == 2

MaxSleepTime == 24

MaxSegment == 5

(***************************************************************************)
(* Strings                                                                 *)
(***************************************************************************)
Upper == <<"A","B","C","D","E","F","G","H","I","J","K","L","M",
           "N","O","P","Q","R","S","T","U","V","W","X","Y","Z">>

Lower == <<"a","b","c","d","e","f","g","h","i","j","k","l","m",
           "n","o","p","q","r","s","t","u","v","w","x","y","z">>

\* one character of str.lower()
LowerChar(c) ==
  IF \E i \in 1..26 : Upper[i] = c
    THEN Lower[CHOOSE i \in 1..26 : Upper[i] = c]
    ELSE c

\* str.lower()
lower(s) == [i \in 1..Len(s) |-> LowerChar(s[i])]

\* q in s, for strings
Contains(q, s) ==
  \E i \in 0..(Len(s) - Len(q)) : SubSeq(s, i + 1, i + Len(q)) = q

\* ''.join(reversed(s))
reversed(s) == [i \in 1..Len(s) |-> s[Len(s) + 1 - i]]

\* Python's None, where a string is expected
None == <<"<None>">>

Whitespace == {" ", "\n", "\t"}

RECURSIVE lstrip(_)
lstrip(s) ==
  IF s # <<>> /\ Head(s) \in Whitespace THEN lstrip(Tail(s)) ELSE s

\* str.strip()
strip(s) == reversed(lstrip(reversed(lstrip(s))))

kw_white == <<"w","h","i","t","e">>

kw_black == <<"b","l","a","c","k">>

kw_imgur == <<"i","m","g","u","r">>

kw_black_to_play == <<"b","l","a","c","k"," ","t","o"," ","p","l","a","y">>

(***************************************************************************)
(* PRAW helper functions                                                   *)
(***************************************************************************)
\* a submission is a record [id, title, url]
isChessboardTopic_nourl(sub) ==
  \E q \in {kw_white, kw_black} : Contains(q, lower(sub.title))

isChessboardTopic(sub) ==
  /\ \E q \in {kw_white, kw_black} : Contains(q, lower(sub.title))
  /\ sub.url # None
  /\ Contains(kw_imgur, sub.url)

isBlackToPlay(title) ==
  \/ Contains(kw_black_to_play, lower(title))
  \/ /\ Contains(kw_black, lower(title))
     /\ ~Contains(kw_white, lower(title))

(***************************************************************************)
(* The reply.  Fixed text of a format string is one element of the         *)
(* sequence; the fen is spelled out.  certainty stands for the text that   *)
(* "%g" gives for round(certainty*100, 4).                                 *)
(***************************************************************************)
lichess_analysis_url == <<"http://www.lichess.org/analysis/">>

fen_to_image_url == <<"http://www.fen-to-image.com/image/30/">>

lichess_editor_url == <<"http://www.lichess.org/editor/">>

dot_png == <<".png">>

to_play_w == <<"_", "w">>

to_play_b == <<"_", "b">>

\* the text of lines 82-85 for a fen, its links and the addendum
ResponseText(certainty, f, fen_img_link, lichess_analysis, to_play_full, black_addendum) ==
  <<"I attempted to generate a chessboard layout from the posted image, with an overall certainty of **">>
    \o certainty \o <<"%**.\n\n", "FEN: [">> \o f \o <<"](">>
    \o fen_img_link \o <<")\n\n", "Here is a link to a [Lichess Analysis](">>
    \o lichess_analysis \o <<") - ">> \o to_play_full \o <<" to play">>
    \o black_addendum

\* lines 77-79
BlackAddendum(original_fen) ==
  <<"\n\n*If board is transposed:*", "\n\nReversed Fen: [">>
    \o original_fen \o <<"](">>
    \o fen_to_image_url \o original_fen \o dot_png
    \o <<")", "\n\nReversed [Lichess analysis link](">>
    \o lichess_analysis_url \o original_fen \o to_play_b \o <<")">>

getResponseToChessboardTopic_noflip(title, f, certainty) ==
  IF isBlackToPlay(title)
    THEN ResponseText(certainty, f,
                      fen_to_image_url \o f \o dot_png,
                      lichess_analysis_url \o f \o to_play_b,
                      <<"Black">>, BlackAddendum(f))
    ELSE ResponseText(certainty, f,
                      fen_to_image_url \o f \o dot_png,
                      lichess_analysis_url \o f \o to_play_w,
                      <<"White">>, <<>>)

getResponseToChessboardTopic(title, f, certainty) ==
  IF isBlackToPlay(title)
    THEN ResponseText(certainty, reversed(f),
                      fen_to_image_url \o reversed(f) \o dot_png,
                      lichess_analysis_url \o reversed(f) \o to_play_b,
                      <<"Black">>, BlackAddendum(f))
    ELSE ResponseText(certainty, f,
                      fen_to_image_url \o f \o dot_png,
                      lichess_analysis_url \o f \o to_play_w,
                      <<"White">>, <<>>)

getResponseHeader == <<"ChessFenBot [o _ o]^*  ^(*I make FENs*)\n\n---\n\n">>

\* the text of lines 107-110 for an editor link and the addendum
FooterText(lichess_editor, black_addendum) ==
  <<"\n\n---\n\n", "^(Yes I am a machine learning bot | )",
    "[^(`How I work`)](https://github.com/Elucidation/tensorflow_chessbot 'Must go deeper')",
    "^( | Reply with a corrected FEN or )", "[^(Editor link)](">>
    \o lichess_editor \o <<")">> \o black_addendum
    \o <<"^( to add to my next training dataset)">>

getResponseFooter(title, f) ==
  IF isBlackToPlay(title)
    THEN FooterText(lichess_editor_url \o reversed(f) \o to_play_b,
                    <<"^(/)[^((Flipped))](">>
                      \o lichess_editor_url \o f \o to_play_b \o <<")">>)
    ELSE FooterText(lichess_editor_url \o f \o to_play_w, <<>>)

segment == 60

\* the sequence of time.sleep() arguments of waitWithComments(sleep_time, seg)
RECURSIVE waitWithComments_nolast(_, _)
waitWithComments_nolast(sleep_time, seg) ==
  IF sleep_time > seg
    THEN <<seg>> \o waitWithComments_nolast(sleep_time - seg, seg)
    ELSE <<>>

waitWithComments_once(sleep_time, seg) == <<sleep_time>>

RECURSIVE waitWithComments(_, _)
waitWithComments(sleep_time, seg) ==
  IF sleep_time > seg
    THEN <<seg>> \o waitWithComments(sleep_time - seg, seg)
    ELSE <<sleep_time>>

RECURSIVE SumSeq(_)
SumSeq(s) == IF s = <<>> THEN 0 ELSE Head(s) + SumSeq(Tail(s))


(***************************************************************************)
(* Submissions the feed can yield                                          *)
(***************************************************************************)
sub_a == [id |-> <<"a">>,
          title |-> <<"B","l","a","c","k"," ","t","o"," ","p","l","a","y">>,
          url |-> <<"i","m","g","u","r",".","c","o","m","/","a">>]

sub_b == [id |-> <<"b">>,
          title |-> <<"M","y"," ","c","a","t">>,
          url |-> <<"i","m","g","u","r",".","c","o","m","/","b">>]

sub_c == [id |-> <<"c">>,
          title |-> <<"W","H","I","T","E"," ","w","i","n","s">>,
          url |-> <<"i",".","i","m","g","u","r",".","c","o","m","/","c">>]

Feed == <<sub_a, sub_b, sub_c>>

Submissions == {Feed[i] : i \in 1..Len(Feed)}

Ids == {s.id : s \in Submissions}

NoSub == [id |-> None, title |-> None, url |-> None]

\* results of predictor.makePrediction other than None
Fens == {<<"r","n","/","P","1">>, <<"8","/","k","Q">>}

\* e.sleep_time of RateLimitExceeded
SleepTimes == {45, 130}

(***************************************************************************)
(* State                                                                   *)
(***************************************************************************)
VARIABLES
  pc,                \* where the process waits
  running,           \* the loop flag
  exit,              \* "none", "clean" (loop left, last line reached),
                     \* "uncaught" (an exception left the loop)
  err,               \* the exception that ended the current pass
  already_processed, \* the in-memory set of ids
  processed_file,    \* submissions_already_processed.txt
  failures_file,     \* submission_failures.txt
  responses_file,    \* submission_responses.txt
  seen,              \* ids the current stream has yielded
  submission,        \* the loop variable
  fen,               \* the prediction for submission
  outcome,           \* how the last add_comment call ended
  sleep_time,        \* e.sleep_time of the rate limit being waited for
  signalled,         \* sum of e.sleep_time over this dispatch
  slept,             \* time slept for rate limits over this dispatch
  tries,             \* rate-limit signals over this dispatch
  replies,           \* per id, how often add_comment returned
  loaded,            \* what loadProcessed returned at startup
  replied_run,       \* ids add_comment returned for in this run
  probe,             \* input of the filter check
  verdict,           \* result of the filter check
  fmt,               \* input and results of the reply functions
  wait               \* input and sleeps of waitWithComments

main_vars == <<pc, running, exit, err, already_processed, processed_file,
               failures_file, responses_file, seen, submission, fen, outcome,
               sleep_time, signalled, slept, tries, replies, loaded,
               replied_run>>

filter_vars == <<probe, verdict>>

format_vars == <<fmt>>

wait_vars == <<wait>>

pure_vars == <<filter_vars, format_vars, wait_vars>>

vars == <<main_vars, pure_vars>>

(***************************************************************************)
(* Processed-set store and logs                                            *)
(***************************************************************************)
NoFile == [exists |-> FALSE, lines |-> <<>>]

loadProcessed_nostrip(file) ==
  IF ~file.exists
    THEN {}
    ELSE {file.lines[i] : i \in 1..Len(file.lines)}

loadProcessed(file) ==
  IF ~file.exists
    THEN {}
    ELSE {strip(file.lines[i]) : i \in 1..Len(file.lines)}

\* the ids of a set in the order they are written
RECURSIVE InOrder(_, _)
InOrder(S, i) ==
  IF i > Len(Feed) THEN <<>>
  ELSE (IF Feed[i].id \in S THEN <<Feed[i].id>> ELSE <<>>) \o InOrder(S, i + 1)

saveProcessed(S) ==
  [exists |-> TRUE,
   lines |-> [i \in 1..Len(InOrder(S, 1)) |-> InOrder(S, 1)[i] \o <<"\n">>]]

addSubmissionToFailures(file, sub) ==
  Append(file, [id |-> sub.id, title |-> sub.title, url |-> sub.url])

addSubmissionToResponses_raw(file, sub, f) ==
  Append(file, [id |-> sub.id, title |-> sub.title, url |-> sub.url,
                fen |-> f])

addSubmissionToResponses(file, sub, f) ==
  Append(file, [id |-> sub.id, title |-> sub.title, url |-> sub.url,
                fen |-> IF isBlackToPlay(sub.title) THEN reversed(f) ELSE f])

\* no reply function and no wait has been applied
NoFormat == [title |-> None, fen |-> None, msg |-> None, footer |-> None,
             logged |-> None]

NoWait == [sleep_time |-> 0, segment |-> 0, sleeps |-> <<>>]

(***************************************************************************)
(* Start of the process                                                    *)
(***************************************************************************)
\* the state after lines 170-178, on the files that are there
Startup(pfile, ffile, rfile, rep) ==
  /\ pc = "open"
  /\ running = TRUE
  /\ exit = "none"
  /\ err = "none"
  /\ already_processed = loadProcessed(pfile)
  /\ processed_file = pfile
  /\ failures_file = ffile
  /\ responses_file = rfile
  /\ seen = {}
  /\ submission = NoSub
  /\ fen = None
  /\ outcome = "none"
  /\ sleep_time = 0
  /\ signalled = 0
  /\ slept = 0
  /\ tries = 0
  /\ replies = rep
  /\ loaded = loadProcessed(pfile)
  /\ replied_run = {}

Init ==
  /\ \E pfile \in {NoFile} \cup {saveProcessed(S) : S \in SUBSET Ids} :
       Startup(pfile, <<>>, <<>>,
               [i \in Ids |-> IF i \in loadProcessed(pfile) THEN 1 ELSE 0])
  /\ probe = NoSub
  /\ verdict = FALSE
  /\ fmt = NoFormat
  /\ wait = NoWait

(***************************************************************************)
(* Main loop, lines 180-254                                                *)
(***************************************************************************)
\* the pass is over: nothing of the dispatch is pending
TryBody == {"stream", "classify", "dispatch", "ratewait", "cooldown"}

Handlers == {"connsleep", "unksleep"}

\* line 183
OpenStream ==
  /\ pc = "open"
  /\ pc' = "stream"
  /\ seen' = {}
  /\ err' = "none"
  /\ UNCHANGED <<running, exit, already_processed, processed_file,
                 failures_file, responses_file, submission, fen, outcome,
                 sleep_time, signalled, slept, tries, replies, loaded,
                 replied_run>>
  /\ UNCHANGED pure_vars

\* line 185: the stream yields a submission it has not yielded before; what
\* is recorded about the previous dispatch is forgotten
NextSubmission(sub) ==
  /\ pc = "stream"
  /\ sub.id \notin seen
  /\ submission' = sub
  /\ seen' = seen \cup {sub.id}
  /\ outcome' = "none"
  /\ sleep_time' = 0
  /\ signalled' = 0
  /\ slept' = 0
  /\ tries' = 0
  /\ pc' = "got"
  /\ UNCHANGED <<running, exit, err, already_processed, processed_file,
                 failures_file, responses_file, fen, replies, loaded,
                 replied_run>>
  /\ UNCHANGED pure_vars

\* lines 191-192
SkipProcessed ==
  /\ pc = "got"
  /\ submission.id \in already_processed
  /\ pc' = "stream"
  /\ UNCHANGED <<running, exit, err, already_processed, processed_file,
                 failures_file, responses_file, seen, submission, fen,
                 outcome, sleep_time, signalled, slept, tries, replies,
                 loaded, replied_run>>
  /\ UNCHANGED pure_vars

\* line 195, the filter says no
NotChessboardTopic ==
  /\ pc = "got"
  /\ submission.id \notin already_processed
  /\ ~isChessboardTopic(submission)
  /\ pc' = "stream"
  /\ UNCHANGED <<running, exit, err, already_processed, processed_file,
                 failures_file, responses_file, seen, submission, fen,
                 outcome, sleep_time, signalled, slept, tries, replies,
                 loaded, replied_run>>
  /\ UNCHANGED pure_vars

\* lines 195-199, the filter says yes: makePrediction is called
CallPrediction_always ==
  /\ pc = "got"
  /\ isChessboardTopic(submission)
  /\ pc' = "classify"
  /\ UNCHANGED <<running, exit, err, already_processed, processed_file,
                 failures_file, responses_file, seen, submission, fen,
                 outcome, sleep_time, signalled, slept, tries, replies,
                 loaded, replied_run>>
  /\ UNCHANGED pure_vars

CallPrediction ==
  /\ pc = "got"
  /\ submission.id \notin already_processed
  /\ isChessboardTopic(submission)
  /\ pc' = "classify"
  /\ UNCHANGED <<running, exit, err, already_processed, processed_file,
                 failures_file, responses_file, seen, submission, fen,
                 outcome, sleep_time, signalled, slept, tries, replies,
                 loaded, replied_run>>
  /\ UNCHANGED pure_vars

\* line 199: makePrediction returns a fen or None
PredictionReturns(f) ==
  /\ pc = "classify"
  /\ fen' = f
  /\ pc' = "predicted"
  /\ UNCHANGED <<running, exit, err, already_processed, processed_file,
                 failures_file, responses_file, seen, submission, outcome,
                 sleep_time, signalled, slept, tries, replies, loaded,
                 replied_run>>
  /\ UNCHANGED pure_vars

\* lines 203, 209-220: a fen came back, the reply is built and add_comment
\* is called
Respond ==
  /\ pc = "predicted"
  /\ fen # None
  /\ outcome' = "pending"
  /\ pc' = "dispatch"
  /\ UNCHANGED <<running, exit, err, already_processed, processed_file,
                 failures_file, responses_file, seen, submission, fen,
                 sleep_time, signalled, slept, tries, replies, loaded,
                 replied_run>>
  /\ UNCHANGED pure_vars

\* lines 203-206: no fen, the failure is written, continue
PredictionFailed_marks ==
  /\ pc = "predicted"
  /\ fen = None
  /\ Len(failures_file) < MaxLog
  /\ failures_file' = addSubmissionToFailures(failures_file, submission)
  /\ already_processed' = already_processed \cup {submission.id}
  /\ processed_file' = saveProcessed(already_processed')
  /\ pc' = "stream"
  /\ UNCHANGED <<running, exit, err, responses_file, seen, submission, fen,
                 outcome, sleep_time, signalled, slept, tries, replies,
                 loaded, replied_run>>
  /\ UNCHANGED pure_vars

PredictionFailed ==
  /\ pc = "predicted"
  /\ fen = None
  /\ Len(failures_file) < MaxLog
  /\ failures_file' = addSubmissionToFailures(failures_file, submission)
  /\ pc' = "stream"
  /\ UNCHANGED <<running, exit, err, already_processed, processed_file,
                 responses_file, seen, submission, fen, outcome, sleep_time,
                 signalled, slept, tries, replies, loaded, replied_run>>
  /\ UNCHANGED pure_vars

\* lines 203-205 and 245-247: no fen, and the write of the failure raises
PredictionFailedLogRaises ==
  /\ pc = "predicted"
  /\ fen = None
  /\ err' = "unknown"
  /\ pc' = "unksleep"
  /\ UNCHANGED <<running, exit, already_processed, processed_file,
                 failures_file, responses_file, seen, submission, fen,
                 outcome, sleep_time, signalled, slept, tries, replies,
                 loaded, replied_run>>
  /\ UNCHANGED pure_vars

\* lines 220-229: add_comment returns, the id is added and saved, the
\* response is written, the cooldown starts
CommentAdded_norecord ==
  /\ pc = "dispatch"
  /\ replies[submission.id] < MaxReplies
  /\ Len(responses_file) < MaxLog
  /\ outcome' = "success"
  /\ replies' = [replies EXCEPT ![submission.id] = @ + 1]
  /\ replied_run' = replied_run \cup {submission.id}
  /\ responses_file' = addSubmissionToResponses(responses_file, submission, fen)
  /\ pc' = "cooldown"
  /\ UNCHANGED <<running, exit, err, already_processed, processed_file,
                 failures_file, seen, submission, fen, sleep_time, signalled,
                 slept, tries, loaded>>
  /\ UNCHANGED pure_vars

CommentAdded_overwrite ==
  /\ pc = "dispatch"
  /\ replies[submission.id] < MaxReplies
  /\ Len(responses_file) < MaxLog
  /\ outcome' = "success"
  /\ replies' = [replies EXCEPT ![submission.id] = @ + 1]
  /\ replied_run' = replied_run \cup {submission.id}
  /\ already_processed' = {submission.id}
  /\ processed_file' = saveProcessed(already_processed')
  /\ responses_file' = addSubmissionToResponses(responses_file, submission, fen)
  /\ pc' = "cooldown"
  /\ UNCHANGED <<running, exit, err, failures_file, seen, submission, fen,
                 sleep_time, signalled, slept, tries, loaded>>
  /\ UNCHANGED pure_vars

CommentAdded ==
  /\ pc = "dispatch"
  /\ replies[submission.id] < MaxReplies
  /\ Len(responses_file) < MaxLog
  /\ outcome' = "success"
  /\ replies' = [replies EXCEPT ![submission.id] = @ + 1]
  /\ replied_run' = replied_run \cup {submission.id}
  /\ already_processed' = already_processed \cup {submission.id}
  /\ processed_file' = saveProcessed(already_processed')
  /\ responses_file' = addSubmissionToResponses(responses_file, submission, fen)
  /\ pc' = "cooldown"
  /\ UNCHANGED <<running, exit, err, failures_file, seen, submission, fen,
                 sleep_time, signalled, slept, tries, loaded>>
  /\ UNCHANGED pure_vars

\* lines 220-225 and 245-247: as above, but the write of the response raises
CommentAddedLogRaises ==
  /\ pc = "dispatch"
  /\ replies[submission.id] < MaxReplies
  /\ outcome' = "success"
  /\ replies' = [replies EXCEPT ![submission.id] = @ + 1]
  /\ replied_run' = replied_run \cup {submission.id}
  /\ already_processed' = already_processed \cup {submission.id}
  /\ processed_file' = saveProcessed(already_processed')
  /\ err' = "unknown"
  /\ pc' = "unksleep"
  /\ UNCHANGED <<running, exit, failures_file, responses_file, seen,
                 submission, fen, sleep_time, signalled, slept, tries, loaded>>
  /\ UNCHANGED pure_vars

\* lines 231-233: add_comment raises AlreadySubmitted
AlreadySubmitted ==
  /\ pc = "dispatch"
  /\ outcome' = "already"
  /\ pc' = "stream"
  /\ UNCHANGED <<running, exit, err, already_processed, processed_file,
                 failures_file, responses_file, seen, submission, fen,
                 sleep_time, signalled, slept, tries, replies, loaded,
                 replied_run>>
  /\ UNCHANGED pure_vars

\* lines 234-236: add_comment raises RateLimitExceeded, the wait starts
RateLimitExceeded(t) ==
  /\ pc = "dispatch"
  /\ tries < MaxRateLimits
  /\ outcome' = "ratelimit"
  /\ sleep_time' = t
  /\ signalled' = signalled + t
  /\ tries' = tries + 1
  /\ pc' = "ratewait"
  /\ UNCHANGED <<running, exit, err, already_processed, processed_file,
                 failures_file, responses_file, seen, submission, fen, slept,
                 replies, loaded, replied_run>>
  /\ UNCHANGED pure_vars

\* line 236 returns: back to line 220 with the same msg
RateWaitDone ==
  /\ pc = "ratewait"
  /\ slept' = slept + SumSeq(waitWithComments(sleep_time, segment))
  /\ outcome' = "pending"
  /\ pc' = "dispatch"
  /\ UNCHANGED <<running, exit, err, already_processed, processed_file,
                 failures_file, responses_file, seen, submission, fen,
                 sleep_time, signalled, tries, replies, loaded, replied_run>>
  /\ UNCHANGED pure_vars

\* lines 229-230: waitWithComments(600) returns, break
CooldownDone ==
  /\ pc = "cooldown"
  /\ pc' = "stream"
  /\ UNCHANGED <<running, exit, err, already_processed, processed_file,
                 failures_file, responses_file, seen, submission, fen,
                 outcome, sleep_time, signalled, slept, tries, replies,
                 loaded, replied_run>>
  /\ UNCHANGED pure_vars

\* the calls that talk to the network or run foreign code
Raising == {"stream", "classify", "dispatch"}

\* lines 240-243: a connection error leaves the try body
ConnectionError_retries ==
  /\ pc \in Raising
  /\ err' = IF pc = "dispatch" THEN err ELSE "conn"
  /\ outcome' = IF pc = "dispatch" THEN "error" ELSE outcome
  /\ processed_file' = saveProcessed(already_processed)
  /\ pc' = IF pc = "dispatch" THEN "ratewait" ELSE "connsleep"
  /\ UNCHANGED <<running, exit, already_processed, failures_file,
                 responses_file, seen, submission, fen, sleep_time, signalled,
                 slept, tries, replies, loaded, replied_run>>
  /\ UNCHANGED pure_vars

ConnectionError_nosave ==
  /\ pc \in Raising
  /\ err' = "conn"
  /\ outcome' = IF pc = "dispatch" THEN "error" ELSE outcome
  /\ pc' = "connsleep"
  /\ UNCHANGED <<running, exit, already_processed, processed_file,
                 failures_file, responses_file, seen, submission, fen,
                 sleep_time, signalled, slept, tries, replies, loaded,
                 replied_run>>
  /\ UNCHANGED pure_vars

ConnectionError ==
  /\ pc \in Raising
  /\ err' = "conn"
  /\ outcome' = IF pc = "dispatch" THEN "error" ELSE outcome
  /\ processed_file' = saveProcessed(already_processed)
  /\ pc' = "connsleep"
  /\ UNCHANGED <<running, exit, already_processed, failures_file,
                 responses_file, seen, submission, fen, sleep_time, signalled,
                 slept, tries, replies, loaded, replied_run>>
  /\ UNCHANGED pure_vars

\* lines 245-247: any other Exception leaves the try body
UnknownError_uncaught ==
  /\ pc \in Raising
  /\ err' = "unknown"
  /\ outcome' = IF pc = "dispatch" THEN "error" ELSE outcome
  /\ processed_file' = saveProcessed(already_processed)
  /\ exit' = "uncaught"
  /\ pc' = "ended"
  /\ UNCHANGED <<running, already_processed, failures_file, responses_file,
                 seen, submission, fen, sleep_time, signalled, slept, tries,
                 replies, loaded, replied_run>>
  /\ UNCHANGED pure_vars

UnknownError ==
  /\ pc \in Raising
  /\ err' = "unknown"
  /\ outcome' = IF pc = "dispatch" THEN "error" ELSE outcome
  /\ pc' = "unksleep"
  /\ UNCHANGED <<running, exit, already_processed, processed_file,
                 failures_file, responses_file, seen, submission, fen,
                 sleep_time, signalled, slept, tries, replies, loaded,
                 replied_run>>
  /\ UNCHANGED pure_vars

\* lines 243-244 / 247-248 and 252-253: the sleep of a handler returns,
\* continue runs the finally clause and the loop goes round
HandlerDone_nosave ==
  /\ pc \in Handlers
  /\ pc' = "open"
  /\ UNCHANGED <<running, exit, err, already_processed, processed_file,
                 failures_file, responses_file, seen, submission, fen,
                 outcome, sleep_time, signalled, slept, tries, replies,
                 loaded, replied_run>>
  /\ UNCHANGED pure_vars

HandlerDone ==
  /\ pc \in Handlers
  /\ processed_file' = saveProcessed(already_processed)
  /\ pc' = "open"
  /\ UNCHANGED <<running, exit, err, already_processed, failures_file,
                 responses_file, seen, submission, fen, outcome, sleep_time,
                 signalled, slept, tries, replies, loaded, replied_run>>
  /\ UNCHANGED pure_vars

\* lines 185, 252-253: the stream ends, the finally clause runs, the loop
\* goes round
StreamEnds ==
  /\ pc = "stream"
  /\ processed_file' = saveProcessed(already_processed)
  /\ pc' = "open"
  /\ UNCHANGED <<running, exit, err, already_processed, failures_file,
                 responses_file, seen, submission, fen, outcome, sleep_time,
                 signalled, slept, tries, replies, loaded, replied_run>>
  /\ UNCHANGED pure_vars

\* lines 249-254, 257: KeyboardInterrupt in the try body
Interrupt_swallowed ==
  /\ pc \in TryBody
  /\ err' = "interrupt"
  /\ UNCHANGED <<pc, outcome, running, processed_file, exit,
                 already_processed, failures_file, responses_file, seen,
                 submission, fen, sleep_time, signalled, slept, tries,
                 replies, loaded, replied_run>>
  /\ UNCHANGED pure_vars

Interrupt ==
  /\ pc \in TryBody
  /\ err' = "interrupt"
  /\ outcome' = IF pc = "dispatch" THEN "interrupt" ELSE outcome
  /\ running' = FALSE
  /\ processed_file' = saveProcessed(already_processed)
  /\ exit' = "clean"
  /\ pc' = "ended"
  /\ UNCHANGED <<already_processed, failures_file, responses_file, seen,
                 submission, fen, sleep_time, signalled, slept, tries,
                 replies, loaded, replied_run>>
  /\ UNCHANGED pure_vars

\* lines 243 / 247, 252-253: KeyboardInterrupt in the sleep of a handler: no
\* except clause of the same try applies, the finally clause runs and the
\* exception leaves the loop
InterruptInHandler ==
  /\ pc \in Handlers
  /\ err' = "interrupt"
  /\ processed_file' = saveProcessed(already_processed)
  /\ exit' = "uncaught"
  /\ pc' = "ended"
  /\ UNCHANGED <<running, already_processed, failures_file, responses_file,
                 seen, submission, fen, outcome, sleep_time, signalled, slept,
                 tries, replies, loaded, replied_run>>
  /\ UNCHANGED pure_vars

\* the script is started again: lines 170-178 on the files left behind
Restart ==
  /\ pc = "ended"
  /\ pc' = "open"
  /\ running' = TRUE
  /\ exit' = "none"
  /\ err' = "none"
  /\ already_processed' = loadProcessed(processed_file)
  /\ seen' = {}
  /\ submission' = NoSub
  /\ fen' = None
  /\ outcome' = "none"
  /\ sleep_time' = 0
  /\ signalled' = 0
  /\ slept' = 0
  /\ tries' = 0
  /\ loaded' = loadProcessed(processed_file)
  /\ replied_run' = {}
  /\ UNCHANGED <<processed_file, failures_file, responses_file, replies>>
  /\ UNCHANGED pure_vars

Next ==
  \/ OpenStream
  \/ \E sub \in Submissions : NextSubmission(sub)
  \/ SkipProcessed
  \/ NotChessboardTopic
  \/ CallPrediction
  \/ \E f \in Fens \cup {None} : PredictionReturns(f)
  \/ Respond
  \/ PredictionFailed
  \/ PredictionFailedLogRaises
  \/ CommentAdded
  \/ CommentAddedLogRaises
  \/ AlreadySubmitted
  \/ \E t \in SleepTimes : RateLimitExceeded(t)
  \/ RateWaitDone
  \/ CooldownDone
  \/ ConnectionError
  \/ UnknownError
  \/ HandlerDone
  \/ StreamEnds
  \/ Interrupt
  \/ InterruptInHandler
  \/ Restart

Spec == Init /\ [][Next]_vars

(***************************************************************************)
(* The filter on its own: isChessboardTopic applied to a title and a url   *)
(***************************************************************************)
TitleParts == {
  <<>>,
  <<"B","l","a","c","k"," ","t","o"," ","p","l","a","y">>,
  <<" ","[","w","h","i","t","e"," ","p","i","e","c","e","s","]">>,
  <<"M","y"," ","c","a","t">>,
  <<"W","h","i","t","e"," ","t","o"," ","p","l","a","y">>,
  <<"W","H","I","T","E">>,
  <<"b","l">>,
  <<"a","c","k">>,
  <<"w","h","i","t">>,
  <<"e">>,
  <<"B","l"," ","a","c","k">>}

Titles == {a \o b : a, b \in TitleParts}

UrlParts == {
  <<>>,
  <<"h","t","t","p",":","/","/","i","m","g","u","r",".","c","o","m","/","x">>,
  <<"h","t","t","p",":","/","/","i",".","I","M","G","U","R",".","c","o","m","/","x">>,
  <<"h","t","t","p",":","/","/","e","x","a","m","p","l","e",".","c","o","m","/","x",".","p","n","g">>,
  <<"i","m","g","u">>,
  <<"r",".","c","o","m">>}

Urls == {None} \cup {a \o b : a, b \in UrlParts}

ex_title_1 == <<"B","l","a","c","k"," ","t","o"," ","p","l","a","y"," ","[","w","h","i","t","e"," ","p","i","e","c","e","s","]">>

ex_title_2 == <<"M","y"," ","c","a","t">>

ex_title_3 == <<"W","h","i","t","e"," ","t","o"," ","p","l","a","y">>

ex_url == <<"h","t","t","p",":","/","/","i","m","g","u","r",".","c","o","m","/","x">>

FilterInit ==
  /\ Startup(NoFile, <<>>, <<>>, [i \in Ids |-> 0])
  /\ probe = NoSub
  /\ verdict = FALSE
  /\ fmt = NoFormat
  /\ wait = NoWait

\* line 195 on a submission with title t and url u
CheckTopic(t, u) ==
  /\ probe = NoSub
  /\ probe' = [id |-> None, title |-> t, url |-> u]
  /\ verdict' = isChessboardTopic(probe')
  /\ UNCHANGED <<main_vars, format_vars, wait_vars>>

FilterNext == \E t \in Titles, u \in Urls : CheckTopic(t, u)

SpecFilter == FilterInit /\ [][FilterNext]_vars

(***************************************************************************)
(* The reply functions on their own: lines 209-212 and 225 on a title and  *)
(* a fen                                                                   *)
(***************************************************************************)
start_fen == <<"r","n","b","q","k","b","n","r","/","p","p","p","p","p","p","p","p","/","8","/","8","/","8","/","8","/","P","P","P","P","P","P","P","P","/","R","N","B","Q","K","B","N","R">>

FormatFens == Fens \cup {start_fen, <<"8">>, <<"k", "7", "/", "K", "7">>}

some_certainty == <<"9", "7">>

FormatInit ==
  /\ Startup(NoFile, <<>>, <<>>, [i \in Ids |-> 0])
  /\ probe = NoSub
  /\ verdict = FALSE
  /\ fmt = NoFormat
  /\ wait = NoWait

\* lines 209-212 and 225 for a submission with title t and prediction f
FormatReply(t, f) ==
  /\ fmt = NoFormat
  /\ fmt' = [title |-> t,
             fen |-> f,
             msg |-> getResponseToChessboardTopic(t, f, some_certainty),
             footer |-> getResponseFooter(t, f),
             logged |-> addSubmissionToResponses(
                          <<>>, [id |-> None, title |-> t, url |-> None],
                          f)[1].fen]
  /\ UNCHANGED <<main_vars, filter_vars, wait_vars>>

FormatNext == \E t \in Titles, f \in FormatFens : FormatReply(t, f)

SpecFormat == FormatInit /\ [][FormatNext]_vars

(***************************************************************************)
(* waitWithComments on its own                                             *)
(***************************************************************************)
cooldown == 600

\* small sleep times with small segments, and the calls of lines 229 and
\* 236 with the default segment
WaitCalls ==
  ((0..MaxSleepTime) \X (1..MaxSegment))
    \cup ((SleepTimes \cup {cooldown}) \X {segment})

WaitInit ==
  /\ Startup(NoFile, <<>>, <<>>, [i \in Ids |-> 0])
  /\ probe = NoSub
  /\ verdict = FALSE
  /\ fmt = NoFormat
  /\ wait = NoWait

\* lines 112-119 for sleep_time t and segment seg
CallWait(t, seg) ==
  /\ wait = NoWait
  /\ wait' = [sleep_time |-> t, segment |-> seg,
              sleeps |-> waitWithComments(t, seg)]
  /\ UNCHANGED <<main_vars, filter_vars, format_vars>>

WaitNext == \E c \in WaitCalls : CallWait(c[1], c[2])

SpecWait == WaitInit /\ [][WaitNext]_vars

(***************************************************************************)
(* Properties                                                              *)
(***************************************************************************)
HasResponse(i) ==
  \E k \in 1..Len(responses_file) : responses_file[k].id = i

C2_SkipHasNoEffect ==
  [][(pc = "got" /\ submission.id \in already_processed)
       => /\ pc' = "stream"
          /\ UNCHANGED <<already_processed, processed_file, failures_file,
                         responses_file, replies, fen, outcome>>]_vars

\* a candidate replied to in this run, met again in a later pass and skipped
C2_Witness ==
  /\ pc = "stream"
  /\ outcome = "none"
  /\ submission # NoSub
  /\ submission.id \in already_processed
  /\ submission.id \in replied_run
  /\ isChessboardTopic(submission)

C4_AlreadySubmittedIsRecorded ==
  [][(pc = "dispatch" /\ outcome' = "already")
       => /\ submission.id \in already_processed'
          /\ submission.id \in loadProcessed(processed_file')]_vars

\* C5: a rate-limit signal leads to a wait and a retry of the same reply,
\* never to the error handlers; each wait lasts at least the signalled
\* time; when add_comment then returns, the time slept is at least the sum
\* of the signalled times and the id is in the processed set.
C5_RateLimitRetry ==
  [][/\ ((pc = "dispatch" /\ outcome' = "ratelimit")
           => /\ pc' = "ratewait"
              /\ err' = err
              /\ submission' = submission /\ fen' = fen
              /\ signalled' = signalled + sleep_time')
     /\ ((pc = "ratewait" /\ err' # "interrupt")
           => /\ pc' = "dispatch"
              /\ submission' = submission /\ fen' = fen
              /\ slept' >= slept + sleep_time)
     /\ ((pc = "dispatch" /\ outcome' = "success")
           => /\ slept' >= signalled'
              /\ submission.id \in already_processed'
              /\ submission.id \in loadProcessed(processed_file'))]_vars

\* add_comment returned after two rate limits, one of them longer than a
\* segment
C5_Witness ==
  /\ outcome = "success"
  /\ tries >= 2
  /\ signalled = 175
  /\ submission.id \in already_processed

\* C6: when makePrediction returns no fen, the submission is appended to
\* the failures file, nothing is dispatched, the id is not added to the
\* processed set and the loop goes on with the same stream.
C6_FailureIsLoggedAndLoopContinues ==
  [][(pc = "predicted" /\ fen = None)
       => /\ failures_file' = addSubmissionToFailures(failures_file, submission)
          /\ pc' = "stream"
          /\ seen' = seen
          /\ UNCHANGED <<already_processed, processed_file, replies>>]_vars

\* C7: whenever a pass has ended, before the next stream is opened and when
\* the process ends, the processed-ids file has been written and holds the
\* in-memory set.
C7_SavedOnEveryExit ==
  [][(pc' \in {"open", "ended"})
       => /\ processed_file'.exists
          /\ loadProcessed(processed_file') = already_processed']_vars

\* a pass ended by an unknown error after a reply, about to open a stream
C7_Witness ==
  /\ pc = "open"
  /\ err = "unknown"
  /\ processed_file.exists
  /\ already_processed # loaded

\* C8: an interrupt saves the processed set and ends the loop cleanly.
C8_InterruptStopsCleanly ==
  [][(err # "interrupt" /\ err' = "interrupt")
       => /\ pc' = "ended"
          /\ running' = FALSE
          /\ exit' = "clean"
          /\ processed_file' = saveProcessed(already_processed')]_vars

\* C9: a connection error or any other exception leads to a handler that
\* sleeps and then to a fresh stream; only an interrupt ends the process.
C9_ErrorsDoNotStopTheLoop ==
  [][/\ ((err = "none" /\ err' \in {"conn", "unknown"})
           => pc' \in Handlers /\ running' /\ exit' = "none")
     /\ ((pc \in Handlers /\ err' # "interrupt")
           => pc' = "open" /\ running' /\ exit' = "none")
     /\ ((pc = "open" /\ err \in {"conn", "unknown"})
           => pc' = "stream" /\ seen' = {})
     /\ (pc' = "ended" => err' = "interrupt")]_vars

\* a dispatch was abandoned and the loop is about to open a fresh stream
C9_Witness ==
  /\ pc = "open"
  /\ err \in {"conn", "unknown"}
  /\ outcome = "error"
  /\ running

\* the title, lower-cased, has the word w at position i
WordAt(w, s, i) ==
  /\ i + Len(w) - 1 <= Len(s)
  /\ \A k \in 1..Len(w) : LowerChar(s[i + k - 1]) = w[k]

TitleHasKeyword(t) ==
  \E i \in 1..Len(t) : WordAt(kw_white, t, i) \/ WordAt(kw_black, t, i)

UrlIsImgur(u) ==
  /\ u # None
  /\ u # <<>>
  /\ \E i \in 1..Len(u) :
       /\ i + 4 <= Len(u)
       /\ \A k \in 1..5 : u[i + k - 1] = kw_imgur[k]

\* C10: isChessboardTopic is true exactly when the lower-cased title has
\* "white" or "black" and the url is there, not empty and has "imgur".
C10_FilterIff ==
  probe # NoSub =>
    /\ verdict <=> (TitleHasKeyword(probe.title) /\ UrlIsImgur(probe.url))
    /\ (probe.title = ex_title_1 /\ probe.url = ex_url) => verdict
    /\ (probe.title = ex_title_2 /\ probe.url = ex_url) => ~verdict
    /\ (probe.title = ex_title_3 /\ probe.url = <<>>) => ~verdict
    /\ (probe.url = None) => ~verdict

\* "Black to play [white pieces]" with an imgur url is a candidate
C10_Witness ==
  /\ probe.title = ex_title_1
  /\ probe.url = ex_url
  /\ verdict

\* reversal, by recursion
RECURSIVE Rev(_)
Rev(s) == IF s = <<>> THEN <<>> ELSE Rev(Tail(s)) \o <<Head(s)>>

\* the two primary links of the reply body, for encoding p and side tp
PrimaryLinks(p, tp) ==
  <<"FEN: [">> \o p \o <<"](">> \o fen_to_image_url \o p \o dot_png
    \o <<")\n\n", "Here is a link to a [Lichess Analysis](">>
    \o lichess_analysis_url \o p \o tp \o <<") - ">>

\* C11: for a black-to-play title the primary diagram and analysis links of
\* the reply body are built from the reversed encoding and an addendum
\* carries the encoding as given; otherwise the primary links are built
\* from the encoding as given and there is no addendum.
C11_FlipInBody ==
  fmt # NoFormat =>
    IF isBlackToPlay(fmt.title)
      THEN /\ Contains(PrimaryLinks(Rev(fmt.fen), to_play_b), fmt.msg)
           /\ Contains(<<"\n\nReversed Fen: [">> \o fmt.fen \o <<"](">>
                         \o fen_to_image_url \o fmt.fen \o dot_png \o <<")">>,
                       fmt.msg)
           /\ Contains(<<"\n\nReversed [Lichess analysis link](">>
                         \o lichess_analysis_url \o fmt.fen \o to_play_b
                         \o <<")">>,
                       fmt.msg)
      ELSE /\ Contains(PrimaryLinks(fmt.fen, to_play_w), fmt.msg)
           /\ ~Contains(<<"\n\n*If board is transposed:*">>, fmt.msg)
           /\ ~Contains(<<"\n\nReversed Fen: [">>, fmt.msg)
           /\ fmt.msg[Len(fmt.msg)] = " to play"

\* "Black to play [white pieces]" and the start position: reversed primary
\* links
C11_Witness ==
  /\ fmt.title = ex_title_1
  /\ isBlackToPlay(fmt.title)
  /\ fmt.fen = start_fen
  /\ Rev(fmt.fen) # fmt.fen
  /\ Contains(lichess_analysis_url \o Rev(start_fen) \o to_play_b, fmt.msg)

\* C12: when add_comment raises anything but the rate-limit and
\* already-submitted signals, the retry loop is left for a handler that
\* sleeps and restarts the stream; the id is not added to the processed
\* set, nothing is appended to the responses file, and a later stream that
\* yields the submission has it classified and dispatched again.
C12_OtherErrorAbandonsDispatch ==
  [][/\ ((pc = "dispatch" /\ outcome' = "error")
           => /\ pc' \in Handlers
              /\ submission' = submission
              /\ submission.id \notin already_processed'
              /\ submission.id \notin loadProcessed(processed_file')
              /\ responses_file' = responses_file
              /\ replies' = replies)
     /\ ((pc \in Handlers /\ outcome = "error" /\ err' # "interrupt")
           => pc' = "open" /\ already_processed' = already_processed)
     /\ ((pc = "got" /\ submission.id \notin already_processed
                     /\ isChessboardTopic(submission))
           => pc' = "classify")
     /\ ((pc = "predicted" /\ fen # None) => pc' = "dispatch")]_vars

\* a dispatch given up after a rate-limit retry, the id left unprocessed
C12_Witness ==
  /\ pc \in Handlers
  /\ outcome = "error"
  /\ tries >= 1
  /\ submission.id \notin already_processed

MidSubmission == {"classify", "dispatch", "ratewait"}

\* C13: an interrupt does not end the handling of a submission that is
\* being classified or dispatched or whose dispatch waits on a rate limit.
C13_InterruptOnlyBetweenSubmissions ==
  [][(pc \in MidSubmission) => (pc' \in {"predicted", "dispatch", "ratewait",
                                        "cooldown", "stream", "connsleep",
                                        "unksleep"})]_vars

\* C13, amended: an interrupt that arrives while a submission is being
\* classified or dispatched, or while its dispatch waits on a rate limit,
\* ends the handling at once: nothing is retried, replied or logged, the
\* processed set is saved as it is and the loop stops.
C13_InterruptEndsHandling ==
  [][(pc \in MidSubmission /\ err' = "interrupt")
       => /\ pc' = "ended"
          /\ running' = FALSE
          /\ exit' = "clean"
          /\ already_processed' = already_processed
          /\ processed_file' = saveProcessed(already_processed)
          /\ replies' = replies
          /\ responses_file' = responses_file
          /\ failures_file' = failures_file]_vars

\* the process ended by an interrupt during a rate-limit wait, the
\* submission not replied to
C13_Witness ==
  /\ pc = "ended"
  /\ exit = "clean"
  /\ outcome = "ratelimit"
  /\ tries >= 1
  /\ submission.id \notin already_processed

\* C14: every id in the in-memory processed set was loaded from the file
\* at startup or belongs to a submission add_comment returned for in this
\* run.
C14_OnlyLoadedOrReplied ==
  \A i \in already_processed : i \in loaded \/ i \in replied_run

\* the set holds a loaded and a replied id; a submission whose
\* classification failed is not in it
C14_Witness ==
  /\ loaded # {}
  /\ replied_run # {}
  /\ loaded \cap replied_run = {}
  /\ Len(failures_file) >= 1
  /\ failures_file[1].id \notin already_processed
  /\ already_processed = loaded \cup replied_run

\* C15: on a connection error the processed set is saved before the
\* sleep; after the sleep a fresh stream is opened, and a submission it
\* yields again that is in the processed set is skipped without a reply.
C15_ConnectionErrorRestart ==
  [][/\ ((err # "conn" /\ err' = "conn")
           => /\ pc' = "connsleep"
              /\ already_processed' = already_processed
              /\ processed_file' = saveProcessed(already_processed))
     /\ ((pc = "connsleep" /\ err' # "interrupt")
           => /\ pc' = "open"
              /\ loadProcessed(processed_file') = already_processed')
     /\ ((pc = "open" /\ err = "conn") => pc' = "stream" /\ seen' = {})
     /\ ((pc = "got" /\ submission.id \in already_processed)
           => pc' = "stream" /\ replies' = replies)]_vars

\* asleep after a connection error, the replies of this run on disk
C15_Witness ==
  /\ pc = "connsleep"
  /\ err = "conn"
  /\ replied_run # {}
  /\ processed_file = saveProcessed(already_processed)

\* C16: a failure to write the failures file or the responses file does
\* not change what the main loop does next: after a reply the id is
\* recorded and the cooldown starts, after a failed classification the loop
\* goes on with the same stream, and no error handler is entered.
C16_LogFailureDoesNotAbort ==
  [][/\ ((pc = "dispatch" /\ outcome' = "success")
           => /\ submission.id \in already_processed'
              /\ submission.id \in loadProcessed(processed_file')
              /\ pc' = "cooldown"
              /\ err' = "none")
     /\ ((pc = "predicted" /\ fen = None)
           => pc' = "stream" /\ err' = "none")]_vars

\* the encoding shown to the reader for title t and prediction f
Shown(t, f) == IF isBlackToPlay(t) THEN Rev(f) ELSE f

SideOf(t) == IF isBlackToPlay(t) THEN to_play_b ELSE to_play_w

\* C17: the encoding written to the responses file, the primary encoding
\* of the reply body and the encoding of the footer's editor link are the
\* same string, the reversal of the prediction for a black-to-play title
\* and the prediction itself otherwise; the footer has a second, "Flipped"
\* editor link, built from the prediction itself, exactly for a
\* black-to-play title.
C17_OrientationAgrees ==
  fmt # NoFormat =>
    /\ fmt.logged = Shown(fmt.title, fmt.fen)
    /\ Contains(<<"FEN: [">> \o Shown(fmt.title, fmt.fen) \o <<"](">>,
                fmt.msg)
    /\ Contains(<<"[^(Editor link)](">> \o lichess_editor_url
                  \o Shown(fmt.title, fmt.fen) \o SideOf(fmt.title)
                  \o <<")">>,
                fmt.footer)
    /\ Contains(<<"^(/)[^((Flipped))](">>, fmt.footer)
         <=> isBlackToPlay(fmt.title)
    /\ isBlackToPlay(fmt.title)
         => Contains(<<"^(/)[^((Flipped))](">> \o lichess_editor_url
                       \o fmt.fen \o to_play_b \o <<")">>,
                     fmt.footer)

\* "Black to play" and the start position: the log holds the reversal and
\* the footer the Flipped link
C17_Witness ==
  /\ fmt.title = sub_a.title
  /\ fmt.fen = start_fen
  /\ fmt.logged = Rev(start_fen)
  /\ fmt.logged # fmt.fen
  /\ Contains(<<"^(/)[^((Flipped))](">>, fmt.footer)

\* C18: after add_comment returns, the id is added to the processed set,
\* the store is saved, the response is appended and the cooldown starts;
\* nothing else is classified or dispatched before the cooldown is over;
\* every id in the responses file is in the processed-ids file.
C18_OrderAfterReply ==
  [][/\ ((pc = "dispatch" /\ outcome' = "success")
           => /\ submission.id \in already_processed'
              /\ processed_file' = saveProcessed(already_processed')
              /\ responses_file'
                   = addSubmissionToResponses(responses_file, submission, fen)
              /\ pc' = "cooldown")
     /\ (pc = "cooldown" => pc' \in {"stream", "ended"})
     /\ (\A k \in 1..Len(responses_file') :
           responses_file'[k].id \in loadProcessed(processed_file'))]_vars

\* C19: for a sleep_time of at least 0 and a segment above 0,
\* waitWithComments ends after at most sleep_time/segment + 1 sleeps, none
\* of them longer than segment, that add up to sleep_time.
C19_WaitSleepsExactly ==
  wait # NoWait =>
    /\ Len(wait.sleeps) >= 1
    /\ Len(wait.sleeps) <= (wait.sleep_time \div wait.segment) + 1
    /\ \A i \in 1..Len(wait.sleeps) :
         wait.sleeps[i] >= 0 /\ wait.sleeps[i] <= wait.segment
    /\ SumSeq(wait.sleeps) = wait.sleep_time

\* the cooldown of line 229: ten sleeps of a minute
C19_Witness ==
  /\ wait.sleep_time = cooldown
  /\ wait.segment = segment
  /\ Len(wait.sleeps) = 10
  /\ \A i \in 1..10 : wait.sleeps[i] = 60

\* C20: no step of the running process takes an id out of the in-memory
\* processed set, and whenever the processed-ids file is written it holds
\* every id that was in it at startup.
C20_ProcessedSetOnlyGrows ==
  [][/\ (pc # "ended" => already_processed \subseteq already_processed')
     /\ (pc # "ended" => loaded' = loaded)
     /\ (processed_file' # processed_file
           => /\ loaded \subseteq loadProcessed(processed_file')
              /\ loadProcessed(processed_file)
                   \subseteq loadProcessed(processed_file'))]_vars

\* the file has been written again with an id more than at startup
C20_Witness ==
  /\ loaded # {}
  /\ processed_file.exists
  /\ loaded \subseteq loadProcessed(processed_file)
  /\ loadProcessed(processed_file) # loaded
  /\ Cardinality(already_processed) >= 2

=============================================================================
